---- MODULE Spec2Model ----
(***************************************************************************)
(* Model of the statistics engine of the nutritional analysis program:     *)
(* DataProcessor (src/src/data_processor.py) and the callers in            *)
(* src/main.py.  A DataFrame is a record [columns, rows]; a row keeps the  *)
(* index label it was loaded with and one cell per column; a cell is a     *)
(* number or NaN.  Every operation leaves its outcome in `result`.         *)
(***************************************************************************)
EXTENDS Integers, Sequences, FiniteSets, TLC

VARIABLES datasets, categories, result, cli

vars == <<datasets, categories, result, cli>>

\* ---------------------------------------------------------------- bounds
\* cell values and operands of the filter range over 0..MaxVal (and NaN)
MaxVal == 1
\* rows of a table handed to filter_data directly
MaxRows == 3
\* cap on the number of add_datasets calls
MaxCategories == 3
\* cap on the consecutive calculate_descriptive_stats calls of a caller
MaxCalls == 2
\* rows of a table whose descriptive statistics are taken on its own
MaxStatsRows == 2

\* ------------------------------------------------------------ data model
NaN == -1

Numbers == 0..MaxVal
Values == Numbers \cup {NaN}

ColumnNames == {"Fat", "Protein", "Carb"}
NutrientNames == ColumnNames \cup {"Fiber"}
CategoryNames == {"food", "drinks"}

Range(s) == {s[i] : i \in 1..Len(s)}

SeqsUpTo(S, n) == UNION {[1..k -> S] : k \in 0..n}

Row(i, cells) == [index |-> i, cells |-> cells]

DataFrame(cols, cellSeq) ==
    [columns |-> cols,
     rows |-> [i \in 1..Len(cellSeq) |-> Row(i, cellSeq[i])]]

Columns(df) == Range(df.columns)

\* ------------------------------------------------------ outcome records
Returned(rtype, value, printed) ==
    [outcome |-> "return", exc |-> "", key |-> "",
     rtype |-> rtype, value |-> value, printed |-> printed]

Raised(exc, key, printed) ==
    [outcome |-> "raise", exc |-> exc, key |-> key,
     rtype |-> "", value |-> <<>>, printed |-> printed]

\* ----------------------------------------------------------- filter_data
\* '>' mistaken for '>='
Gt_orEqual(a, b) == a # NaN /\ b # NaN /\ a >= b

\* a missing cell compared as a value below every number
Lt_missingLow(a, b) == a < b

\* Comparisons of pandas Series cells: a comparison with NaN is False.
Gt(a, b) == a # NaN /\ b # NaN /\ a > b
Lt(a, b) == a # NaN /\ b # NaN /\ a < b
Eq(a, b) == a # NaN /\ b # NaN /\ a = b
Ge(a, b) == a # NaN /\ b # NaN /\ a >= b
Le(a, b) == a # NaN /\ b # NaN /\ a <= b

\* bounds swapped when left > right
between_swapping(a, left, right) ==
    IF left # NaN /\ right # NaN /\ left > right
    THEN a # NaN /\ a >= right /\ a <= left
    ELSE a # NaN /\ left # NaN /\ right # NaN /\ a >= left /\ a <= right

\* Series.between(left, right): (series >= left) & (series <= right)
between(a, left, right) == Ge(a, left) /\ Le(a, right)

Series(df, nutrient) == [i \in 1..Len(df.rows) |-> df.rows[i].cells[nutrient]]

\* an unknown column reads as a column of missing values instead of an error
getitem_missingOnUnknown(df, nutrient) ==
    IF nutrient \notin Range(df.columns)
    THEN [outcome |-> "return", exc |-> "", key |-> "", rtype |-> "Series",
          value |-> [i \in 1..Len(df.rows) |-> NaN], printed |-> <<>>]
    ELSE [outcome |-> "return", exc |-> "", key |-> "", rtype |-> "Series",
          value |-> [i \in 1..Len(df.rows) |-> df.rows[i].cells[nutrient]],
          printed |-> <<>>]

\* df[nutrient]: the column, or KeyError when df has no such column
getitem(df, nutrient) ==
    IF nutrient \notin Columns(df)
    THEN Raised("KeyError", nutrient, <<>>)
    ELSE Returned("Series", Series(df, nutrient), <<>>)

\* the boolean Series the operator builds from the column
Mask(series, operator, value) ==
    [i \in 1..Len(series) |->
        CASE operator = ">" -> Gt(series[i], value)
          [] operator = "<" -> Lt(series[i], value)
          [] operator = "==" -> Eq(series[i], value)
          [] operator = "between" -> between(series[i], value[1], value[2])]

RECURSIVE Take(_, _)
Take(rows, mask) ==
    IF rows = <<>> THEN <<>>
    ELSE (IF Head(mask) THEN <<Head(rows)>> ELSE <<>>)
            \o Take(Tail(rows), Tail(mask))

\* df[mask]: the rows whose mask is True, in order, with index and columns
BoolIndex(df, mask) == [columns |-> df.columns, rows |-> Take(df.rows, mask)]

\* df[<mask of df[nutrient]>]: the column lookup fails before any mask exists
Select(df, column, operator, value) ==
    IF column.outcome = "raise" THEN column
    ELSE Returned("DataFrame",
                  BoolIndex(df, Mask(column.value, operator, value)), <<>>)

\* an unrecognized operator matches no row
filter_data_noMatch(df, nutrient, operator, value) ==
    IF operator = ">"
    THEN Select(df, getitem(df, nutrient), ">", value)
    ELSE IF operator = "<"
    THEN Select(df, getitem(df, nutrient), "<", value)
    ELSE IF operator = "=="
    THEN Select(df, getitem(df, nutrient), "==", value)
    ELSE IF operator = "between"
    THEN Select(df, getitem(df, nutrient), "between", value)
    ELSE Returned("DataFrame", [columns |-> df.columns, rows |-> <<>>],
                  <<"operator not recognized.">>)

filter_data(df, nutrient, operator, value) ==
    IF operator = ">"
    THEN Select(df, getitem(df, nutrient), ">", value)
    ELSE IF operator = "<"
    THEN Select(df, getitem(df, nutrient), "<", value)
    ELSE IF operator = "=="
    THEN Select(df, getitem(df, nutrient), "==", value)
    ELSE IF operator = "between"
    THEN Select(df, getitem(df, nutrient), "between", value)
    ELSE Returned("DataFrame", df, <<"operator not recognized.">>)

\* ------------------------------------------------------ column statistics
\* Statistics skip NaN cells.  A statistic rounded to 2 decimals is kept as
\* an integer number of hundredths; count is a plain integer; NaN is NaN.
RECURSIVE Dropna(_)
Dropna(s) ==
    IF s = <<>> THEN <<>>
    ELSE IF Head(s) = NaN THEN Dropna(Tail(s))
    ELSE <<Head(s)>> \o Dropna(Tail(s))

RECURSIVE Sum(_)
Sum(s) == IF s = <<>> THEN 0 ELSE Head(s) + Sum(Tail(s))

RECURSIVE Insert(_, _)
Insert(x, s) ==
    IF s = <<>> THEN <<x>>
    ELSE IF x <= Head(s) THEN <<x>> \o s
    ELSE <<Head(s)>> \o Insert(x, Tail(s))

RECURSIVE Sort(_)
Sort(s) == IF s = <<>> THEN <<>> ELSE Insert(Head(s), Sort(Tail(s)))

\* round(num/den, 2) in hundredths, ties to even
round2(num, den) ==
    LET q == (100 * num) \div den
        r == (100 * num) % den
    IN  IF 2 * r < den THEN q
        ELSE IF 2 * r > den THEN q + 1
        ELSE IF q % 2 = 0 THEN q ELSE q + 1

\* missing cells counted as well
count_withMissing(s) == Len(s)

count(s) == Len(Dropna(s))

mean(s) ==
    LET v == Dropna(s)
    IN  IF v = <<>> THEN NaN ELSE round2(Sum(v), Len(v))

\* Series.quantile(k/4), linear interpolation between order statistics
quantile(s, k) ==
    LET v == Sort(Dropna(s))
        n == Len(v)
        lo == ((n - 1) * k) \div 4
        fr == ((n - 1) * k) % 4
    IN  IF n = 0 THEN NaN
        ELSE IF fr = 0 THEN 100 * v[lo + 1]
        ELSE 100 * v[lo + 1] + 25 * fr * (v[lo + 2] - v[lo + 1])

median(s) == quantile(s, 2)

min(s) == LET v == Sort(Dropna(s)) IN IF v = <<>> THEN NaN ELSE 100 * v[1]

max(s) == LET v == Sort(Dropna(s)) IN IF v = <<>> THEN NaN ELSE 100 * v[Len(v)]

\* Series.std(): sample standard deviation (n-1 denominator), NaN below 2
\* values; the hundredths nearest to 100*sqrt(A/B).
std(s) ==
    LET v == Dropna(s)
        n == Len(v)
        A == n * Sum([i \in 1..n |-> v[i] * v[i]]) - Sum(v) * Sum(v)
        B == n * (n - 1)
        top == 100 * (max(s) \div 100) + 1
    IN  IF n < 2 THEN NaN
        ELSE CHOOSE h \in 0..top :
                /\ 40000 * A < (2 * h + 1) * (2 * h + 1) * B
                /\ h = 0 \/ (2 * h - 1) * (2 * h - 1) * B <= 40000 * A

MetricNames == {"count", "mean", "median", "std", "min", "max", "25%", "50%", "75%"}

ColumnMetrics(s) ==
    [m \in MetricNames |->
        CASE m = "count" -> count(s)
          [] m = "mean" -> mean(s)
          [] m = "median" -> median(s)
          [] m = "std" -> std(s)
          [] m = "min" -> min(s)
          [] m = "max" -> max(s)
          [] m = "25%" -> quantile(s, 1)
          [] m = "50%" -> quantile(s, 2)
          [] m = "75%" -> quantile(s, 3)]

NanMetrics == [m \in MetricNames |-> NaN]

\* ------------------------------------------------------- compare_datasets
\* An optional argument is [given |-> FALSE] for None, else carries the list.
None == [given |-> FALSE, list |-> <<>>]
Some(l) == [given |-> TRUE, list |-> l]

\* set.intersection(*all_cols)
IntersectAll(sets) == {c \in UNION sets : \A s \in sets : c \in s}

\* inferred nutrient set taken as the union of the column sets
ResolveNutrients_union(ds, nutrients) ==
    IF nutrients.given THEN Range(nutrients.list)
    ELSE UNION {Columns(ds[c]) : c \in DOMAIN ds}

ResolveNutrients(ds, nutrients) ==
    IF nutrients.given THEN Range(nutrients.list)
    ELSE IntersectAll({Columns(ds[c]) : c \in DOMAIN ds})

\* the sufficiency check compares against 1 instead of 2
compare_datasets_oneSuffices(ds, nutrients) ==
    IF Cardinality(DOMAIN ds) < 1
    THEN Returned("NoneType", <<>>, <<"Need at least 2 datasets to compare.">>)
    ELSE Returned("dict",
                  [category \in DOMAIN ds |->
                     [nutrient \in ResolveNutrients(ds, nutrients) |->
                        IF nutrient \in Columns(ds[category])
                        THEN ColumnMetrics(Series(ds[category], nutrient))
                        ELSE NanMetrics]],
                  <<>>)

\* a nutrient the category lacks gets no entry
compare_datasets_skipAbsent(ds, nutrients) ==
    IF Cardinality(DOMAIN ds) < 2
    THEN Returned("NoneType", <<>>, <<"Need at least 2 datasets to compare.">>)
    ELSE Returned("dict",
                  [category \in DOMAIN ds |->
                     [nutrient \in ResolveNutrients(ds, nutrients)
                                     \cap Columns(ds[category]) |->
                        ColumnMetrics(Series(ds[category], nutrient))]],
                  <<>>)

compare_datasets(ds, nutrients) ==
    IF Cardinality(DOMAIN ds) < 2
    THEN Returned("NoneType", <<>>, <<"Need at least 2 datasets to compare.">>)
    ELSE Returned("dict",
                  [category \in DOMAIN ds |->
                     [nutrient \in ResolveNutrients(ds, nutrients) |->
                        IF nutrient \in Columns(ds[category])
                        THEN ColumnMetrics(Series(ds[category], nutrient))
                        ELSE NanMetrics]],
                  <<>>)

\* -------------------------------------------------------- filter_datasets
Put(map, k, v) == [x \in DOMAIN map \cup {k} |-> IF x = k THEN v ELSE map[x]]

RECURSIVE filter_loop(_, _, _, _, _, _, _)
filter_loop(ds, cats, nutrient, operator, value, filtered, printed) ==
    IF cats = <<>> THEN Returned("dict", filtered, printed)
    ELSE IF Head(cats) \notin DOMAIN ds
    THEN Raised("KeyError", Head(cats), printed)
    ELSE LET o == filter_data(ds[Head(cats)], nutrient, operator, value)
         IN  IF o.outcome = "raise"
             THEN Raised(o.exc, o.key, printed \o o.printed)
             ELSE filter_loop(ds, Tail(cats), nutrient, operator, value,
                              Put(filtered, Head(cats), o.value),
                              printed \o o.printed)

\* the categories argument is ignored: every registered category is filtered
filter_datasets_allAlways(ds, cats, nutrient, operator, value, categoriesArg) ==
    filter_loop(ds, cats, nutrient, operator, value, <<>>, <<>>)

filter_datasets(ds, cats, nutrient, operator, value, categoriesArg) ==
    filter_loop(ds, IF categoriesArg.given THEN categoriesArg.list ELSE cats,
                nutrient, operator, value, <<>>, <<>>)

\* ------------------------------------------------------------ filter_dataset
\* the category is looked up in the dict without the membership check
filter_dataset_unchecked(ds, cats, catergory, nutrient, operator, value) ==
    IF catergory \notin DOMAIN ds
    THEN Raised("KeyError", catergory, <<>>)
    ELSE filter_data(ds[catergory], nutrient, operator, value)

filter_dataset(ds, cats, catergory, nutrient, operator, value) ==
    IF catergory \notin Range(cats)
    THEN Raised("ValueError", catergory, <<>>)
    ELSE IF catergory \notin DOMAIN ds
    THEN Raised("KeyError", catergory, <<>>)
    ELSE filter_data(ds[catergory], nutrient, operator, value)

\* ------------------------------------------------ calculate_descriptive_stats
\* describe() and the ratios are not rounded: a value is kept as the exact
\* fraction [num, den] in lowest terms; den = 0 is numpy's division by zero,
\* nan for 0/0 and inf otherwise.
RECURSIVE GCD(_, _)
GCD(a, b) == IF b = 0 THEN a ELSE GCD(b, a % b)

Frac(n, d) ==
    IF d = 0 THEN [num |-> IF n = 0 THEN 0 ELSE 1, den |-> 0]
    ELSE [num |-> n \div GCD(n, d), den |-> d \div GCD(n, d)]

NanFrac == Frac(0, 0)

DescribeNames == {"count", "mean", "std", "min", "25%", "50%", "75%", "max"}

\* one cell of describe(); std is kept by its square, the sample variance
DescribeCell(stat, s) ==
    LET v == Sort(Dropna(s))
        n == Len(v)
        qpos(k) == ((n - 1) * k) \div 4
        qfr(k) == ((n - 1) * k) % 4
        q(k) == IF qfr(k) = 0 THEN Frac(v[qpos(k) + 1], 1)
                ELSE Frac(4 * v[qpos(k) + 1]
                            + qfr(k) * (v[qpos(k) + 2] - v[qpos(k) + 1]), 4)
    IN  IF stat = "count" THEN Frac(n, 1)
        ELSE IF n = 0 THEN NanFrac
        ELSE CASE stat = "mean" -> Frac(Sum(v), n)
               [] stat = "std" ->
                    IF n < 2 THEN NanFrac
                    ELSE Frac(n * Sum([i \in 1..n |-> v[i] * v[i]]) - Sum(v) * Sum(v),
                              n * (n - 1))
               [] stat = "min" -> Frac(v[1], 1)
               [] stat = "25%" -> q(1)
               [] stat = "50%" -> q(2)
               [] stat = "75%" -> q(3)
               [] stat = "max" -> Frac(v[n], 1)

\* DataFrame.describe(): rows are the statistics, columns the nutrients
describe(df) ==
    [stat \in DescribeNames |->
        [c \in Columns(df) |-> DescribeCell(stat, Series(df, c))]]

\* Series.sum(): missing cells are skipped
ColumnSum(df, c) == Sum(Dropna(Series(df, c)))

RatioNames == {"fat_to_protein", "protein_to_carb", "carb_to_fat"}

\* every quotient taken the wrong way round
ratio_inverted(df) ==
    IF {"Fat", "Protein", "Carb"} \subseteq Range(df.columns)
    THEN [r \in RatioNames |->
            CASE r = "fat_to_protein" -> Frac(ColumnSum(df, "Protein"), ColumnSum(df, "Fat"))
              [] r = "protein_to_carb" -> Frac(ColumnSum(df, "Carb"), ColumnSum(df, "Protein"))
              [] r = "carb_to_fat" -> Frac(ColumnSum(df, "Fat"), ColumnSum(df, "Carb"))]
    ELSE <<>>

\* each ratio is set as soon as its own two columns are there
ratio_partial(df) ==
    [r \in {x \in RatioNames :
               \/ x = "fat_to_protein" /\ {"Fat", "Protein"} \subseteq Range(df.columns)
               \/ x = "protein_to_carb" /\ {"Protein", "Carb"} \subseteq Range(df.columns)
               \/ x = "carb_to_fat" /\ {"Carb", "Fat"} \subseteq Range(df.columns)} |->
        CASE r = "fat_to_protein" -> Frac(ColumnSum(df, "Fat"), ColumnSum(df, "Protein"))
          [] r = "protein_to_carb" -> Frac(ColumnSum(df, "Protein"), ColumnSum(df, "Carb"))
          [] r = "carb_to_fat" -> Frac(ColumnSum(df, "Carb"), ColumnSum(df, "Fat"))]

\* stats[category]['ratio']
ratio(df) ==
    IF {"Fat", "Protein", "Carb"} \subseteq Columns(df)
    THEN [r \in RatioNames |->
            CASE r = "fat_to_protein" -> Frac(ColumnSum(df, "Fat"), ColumnSum(df, "Protein"))
              [] r = "protein_to_carb" -> Frac(ColumnSum(df, "Protein"), ColumnSum(df, "Carb"))
              [] r = "carb_to_fat" -> Frac(ColumnSum(df, "Carb"), ColumnSum(df, "Fat"))]
    ELSE <<>>

\* describe() refuses a table without columns
calculate_descriptive_stats(ds) ==
    IF \E category \in DOMAIN ds : Columns(ds[category]) = {}
    THEN Raised("ValueError", "", <<>>)
    ELSE Returned("dict",
                  [category \in DOMAIN ds |->
                     [describe |-> describe(ds[category]),
                      ratio |-> ratio(ds[category])]],
                  <<>>)

\* ----------------------------------------------------------------- inputs
RecognizedOperators == {">", "<", "==", "between"}

Operators == RecognizedOperators \cup {">="}

\* value: a number for '>', '<', '==' and a (min, max) tuple for 'between'
OperandsOf(operator) ==
    IF operator = "between" THEN Numbers \X Numbers ELSE Numbers

\* Tables handed to filter_data directly: every table of at most MaxRows rows
\* over these column lists.
FilterSchemas == {<<>>, <<"Fat">>, <<"Fat", "Protein">>}

\* the cell contents of the tables of k rows over the columns cols
CellSeqs(cols, k) == [1..k -> [Range(cols) -> Values]]

\* every column name some such table has (each is unknown to another table)
FilterNutrients == UNION {Range(cols) : cols \in FilterSchemas}

\* Tables registered with the engine: three menus, each loaded with one of
\* three column lists (categories differ in the columns they carry).
MenuA == << [Fat |-> 2, Protein |-> 1, Carb |-> 1],
            [Fat |-> 4, Protein |-> 1, Carb |-> 3] >>

MenuB == << [Fat |-> NaN, Protein |-> 2, Carb |-> 0],
            [Fat |-> 1, Protein |-> NaN, Carb |-> 2],
            [Fat |-> 2, Protein |-> 0, Carb |-> 2] >>

MenuC == << >>

Menus == {MenuA, MenuB, MenuC}

EngineSchemas == {<<"Fat", "Protein", "Carb">>, <<"Fat", "Protein">>, <<"Carb">>}

Project(cols, menu) ==
    [i \in 1..Len(menu) |-> [c \in Range(cols) |-> menu[i][c]]]

EngineTables ==
    {DataFrame(cols, Project(cols, menu)) : cols \in EngineSchemas, menu \in Menus}

NutrientArgs == {None} \cup {Some(l) : l \in SeqsUpTo(NutrientNames, 2)}

CategoryLists ==
    {l \in SeqsUpTo(CategoryNames, 2) : Cardinality(Range(l)) = Len(l)}

CategoryArgs == {None} \cup {Some(l) : l \in CategoryLists}

\* ---------------------------------------------------------- state machine
Result(op, args, out) == [op |-> op, args |-> args, out |-> out]

\* No call outstanding: the caller holds no outcome and may call the engine.
Idle == Result("", <<>>, Returned("NoneType", <<>>, <<>>))

\* The engine used through its methods, with no command-line session.
NoCLI == [pc |-> "none"]

\* DataProcessor.__init__
Init ==
    /\ datasets = <<>>
    /\ categories = <<>>
    /\ result = Idle
    /\ cli = NoCLI

\* the name is never put on the category list
add_datasets_forgetsList(catergory, df) ==
    /\ datasets' = Put(datasets, catergory, df)
    /\ result' = Result("add_datasets", [catergory |-> catergory, df |-> df],
                        Returned("NoneType", <<>>, <<>>))
    /\ UNCHANGED <<categories, cli>>

add_datasets(catergory, df) ==
    /\ Len(categories) < MaxCategories
    /\ datasets' = Put(datasets, catergory, df)
    /\ categories' = Append(categories, catergory)
    /\ result' = Result("add_datasets", [catergory |-> catergory, df |-> df],
                        Returned("NoneType", <<>>, <<>>))
    /\ UNCHANGED cli

CompareDatasets(nutrients) ==
    /\ result' = Result("compare_datasets", [nutrients |-> nutrients],
                        compare_datasets(datasets, nutrients))
    /\ UNCHANGED <<datasets, categories, cli>>

FilterDatasets(nutrient, operator, value, categoriesArg) ==
    /\ result' = Result("filter_datasets",
                        [nutrient |-> nutrient, operator |-> operator,
                         value |-> value, categories |-> categoriesArg],
                        filter_datasets(datasets, categories, nutrient,
                                        operator, value, categoriesArg))
    /\ UNCHANGED <<datasets, categories, cli>>

\* the filtered table replaces the registered one
FilterDataset_inPlace(catergory, nutrient, operator, value) ==
    /\ result' = Result("filter_dataset",
                        [catergory |-> catergory, nutrient |-> nutrient,
                         operator |-> operator, value |-> value],
                        filter_dataset(datasets, categories, catergory,
                                       nutrient, operator, value))
    /\ datasets' = IF result'.out.outcome = "return"
                   THEN Put(datasets, catergory, result'.out.value)
                   ELSE datasets
    /\ UNCHANGED <<categories, cli>>

FilterDataset(catergory, nutrient, operator, value) ==
    /\ result' = Result("filter_dataset",
                        [catergory |-> catergory, nutrient |-> nutrient,
                         operator |-> operator, value |-> value],
                        filter_dataset(datasets, categories, catergory,
                                       nutrient, operator, value))
    /\ UNCHANGED <<datasets, categories, cli>>

\* missing cells are filled with 0 in the registered tables before describing
DescriptiveStats_fillingMissing(nth) ==
    /\ result' = Result("calculate_descriptive_stats", [nth |-> nth],
                        calculate_descriptive_stats(datasets))
    /\ datasets' = [c \in DOMAIN datasets |->
                      [columns |-> datasets[c].columns,
                       rows |-> [i \in 1..Len(datasets[c].rows) |->
                                  Row(datasets[c].rows[i].index,
                                      [n \in Columns(datasets[c]) |->
                                         IF datasets[c].rows[i].cells[n] = NaN
                                         THEN 0
                                         ELSE datasets[c].rows[i].cells[n]])]]]
    /\ UNCHANGED <<categories, cli>>

\* nth: the caller's nth call in a row
DescriptiveStats(nth) ==
    /\ result' = Result("calculate_descriptive_stats", [nth |-> nth],
                        calculate_descriptive_stats(datasets))
    /\ UNCHANGED <<datasets, categories, cli>>

FilterData(df, nutrient, operator, value) ==
    /\ result' = Result("filter_data",
                        [df |-> df, nutrient |-> nutrient,
                         operator |-> operator, value |-> value],
                        filter_data(df, nutrient, operator, value))
    /\ UNCHANGED <<datasets, categories, cli>>

\* The caller has used the outcome (printed it, or moved on) and is back at
\* the point where it makes its next call.
Resume ==
    /\ result # Idle
    /\ result' = Idle
    /\ UNCHANGED <<datasets, categories, cli>>

\* The caller's calls, each made when no outcome is outstanding.
Register ==
    /\ result = Idle
    /\ \E c \in CategoryNames, df \in EngineTables : add_datasets(c, df)

Compare ==
    /\ result = Idle
    /\ \E n \in NutrientArgs : CompareDatasets(n)

FilterMany ==
    /\ result = Idle
    /\ \E nutrient \in ColumnNames, operator \in Operators, cs \in CategoryArgs :
          \E value \in OperandsOf(operator) :
              FilterDatasets(nutrient, operator, value, cs)

FilterOne ==
    /\ result = Idle
    /\ \E c \in CategoryNames, nutrient \in ColumnNames, operator \in Operators :
          \E value \in OperandsOf(operator) :
              FilterDataset(c, nutrient, operator, value)

\* descriptive statistics, asked for once or again right after
Stats ==
    \/ result = Idle /\ DescriptiveStats(1)
    \/ /\ result.op = "calculate_descriptive_stats"
       /\ result.args.nth < MaxCalls
       /\ DescriptiveStats(result.args.nth + 1)

Filter ==
    /\ result = Idle
    /\ \E cols \in FilterSchemas, k \in 0..MaxRows :
          \E cellSeq \in CellSeqs(cols, k),
             nutrient \in FilterNutrients, operator \in Operators :
              \E value \in OperandsOf(operator) :
                  FilterData(DataFrame(cols, cellSeq), nutrient, operator, value)

\* The engine: registration and the queries over the registered tables.
Next == Register \/ Compare \/ FilterMany \/ FilterOne \/ Stats \/ Resume

Spec == Init /\ [][Next]_vars

\* Statistics over every small table: one category holds any table of at most
\* MaxStatsRows rows over the three ratio columns, the other the first menu.
StatsSchema == <<"Fat", "Protein", "Carb">>

\* a cell of such a table: missing, zero or one
StatsCells == {NaN, 0, 1}

RegisterMenu ==
    /\ result = Idle
    /\ categories = <<>>
    /\ \E k \in 0..MaxStatsRows :
          \E cellSeq \in [1..k -> [Range(StatsSchema) -> StatsCells]] :
              add_datasets("food", DataFrame(StatsSchema, cellSeq))

RegisterOther ==
    /\ result = Idle
    /\ categories = <<"food">>
    /\ add_datasets("drinks", DataFrame(StatsSchema, Project(StatsSchema, MenuA)))

CompareAll ==
    /\ result = Idle
    /\ CompareDatasets(None)

NextStats == RegisterMenu \/ RegisterOther \/ Stats \/ CompareAll \/ Resume

SpecStats == Init /\ [][NextStats]_vars

\* The static filter_data applied to arbitrary tables.
NextFilter == Filter \/ Resume

SpecFilter == Init /\ [][NextFilter]_vars

\* ------------------------------------------------------------------ text
\* A str is the sequence of its characters.  Only these letters have two
\* cases in the texts used here; any other character is its own upper and
\* lower case.
LowerLetters == <<"a", "d", "e", "f", "h", "i", "k", "n", "o", "p", "q",
                  "r", "s", "t", "u", "x">>

UpperLetters == <<"A", "D", "E", "F", "H", "I", "K", "N", "O", "P", "Q",
                  "R", "S", "T", "U", "X">>

DigitChars == <<"0", "1", "2", "3", "4", "5", "6", "7", "8", "9">>

Whitespace == {" "}

IndexOf(s, ch) == CHOOSE i \in 1..Len(s) : s[i] = ch

lower_char(ch) ==
    IF ch \in Range(UpperLetters) THEN LowerLetters[IndexOf(UpperLetters, ch)]
    ELSE ch

upper_char(ch) ==
    IF ch \in Range(LowerLetters) THEN UpperLetters[IndexOf(LowerLetters, ch)]
    ELSE ch

\* str.lower()
lower(text) == [i \in 1..Len(text) |-> lower_char(text[i])]

\* str.capitalize(): first character upper case, all the others lower case
capitalize(text) ==
    [i \in 1..Len(text) |->
        IF i = 1 THEN upper_char(text[i]) ELSE lower_char(text[i])]

RECURSIVE lstrip(_)
lstrip(text) ==
    IF text # <<>> /\ Head(text) \in Whitespace THEN lstrip(Tail(text))
    ELSE text

RECURSIVE rstrip(_)
rstrip(text) ==
    IF text # <<>> /\ text[Len(text)] \in Whitespace
    THEN rstrip(SubSeq(text, 1, Len(text) - 1))
    ELSE text

\* str.strip()
strip(text) == rstrip(lstrip(text))

RECURSIVE DecimalValue(_)
DecimalValue(digits) ==
    IF digits = <<>> THEN 0
    ELSE 10 * DecimalValue(SubSeq(digits, 1, Len(digits) - 1))
            + (IndexOf(DigitChars, digits[Len(digits)]) - 1)

\* float(text) for texts of digits, blanks and letters: the number, or
\* ValueError when the stripped text is not a run of digits
float(text) ==
    IF strip(text) # <<>> /\ \A i \in 1..Len(strip(text)) :
                                 strip(text)[i] \in Range(DigitChars)
    THEN Returned("float", DecimalValue(strip(text)), <<>>)
    ELSE Raised("ValueError", text, <<>>)

RECURSIVE Join(_, _)
Join(texts, sep) ==
    IF texts = <<>> THEN <<>>
    ELSE IF Len(texts) = 1 THEN texts[1]
    ELSE texts[1] \o sep \o Join(Tail(texts), sep)

\* a cell as it is printed
CellText(v) == IF v = NaN THEN <<"N", "a", "N">> ELSE <<DigitChars[v + 1]>>

\* DataFrame.to_string(): the header line and one line per row
to_string(df) ==
    Join(<<Join(df.columns, <<" ">>)>>
            \o [i \in 1..Len(df.rows) |->
                  Join(<<CellText(df.rows[i].index)>>
                          \o [j \in 1..Len(df.columns) |->
                                CellText(df.rows[i].cells[df.columns[j]])],
                       <<" ">>)],
         <<"\n">>)

\* text in part: part occurs in text as a run of consecutive characters
Contains(text, part) ==
    \E i \in 0..(Len(text) - Len(part)) :
        SubSeq(text, i + 1, i + Len(part)) = part

\* ----------------------------------------------------------- LLMService
\* The outcome holds the user message of the request sent to the completion
\* API; the literal parts of the f-string are single pieces of the text.
generate_response(prompt, context) ==
    Returned("str",
             [user |-> IF context # <<>>
                       THEN <<"Based on the provided data: ">> \o context
                               \o <<", answer the following question: ">>
                               \o prompt
                       ELSE context],
             <<>>)

\* ------------------------------------------------------------ main.py
FoodName == <<"f", "o", "o", "d">>
DrinksName == <<"d", "r", "i", "n", "k", "s">>

QuitWords == {<<"q", "u", "i", "t">>, <<"e", "x", "i", "t">>, <<"q">>}

\* operator strings as the engine's operator values
OperatorToken(text) ==
    CASE text = <<">">> -> ">"
      [] text = <<"<">> -> "<"
      [] text = <<"=", "=">> -> "=="
      [] text = <<"b", "e", "t", "w", "e", "e", "n">> -> "between"

\* Column names of the loaded files: the loader strips them and removes
\* units and periods, and keeps the case they have in the file.
FatName == <<"F", "a", "t">>
CarbName == <<"C", "a", "r", "b">>
PHName == <<"p", "H">>

\* (food table, drinks table) pairs the two files may hold
LoadedMenus ==
    { <<DataFrame(<<FatName, CarbName>>,
                  << (FatName :> 1 @@ CarbName :> 0),
                     (FatName :> NaN @@ CarbName :> 1) >>),
        DataFrame(<<FatName>>, << (FatName :> 0), (FatName :> 1) >>)>>,
      <<DataFrame(<<FatName, PHName>>,
                  << (FatName :> 1 @@ PHName :> 0),
                     (FatName :> 0 @@ PHName :> 1) >>),
        DataFrame(<<FatName, PHName>>, << (FatName :> 1 @@ PHName :> NaN) >>)>> }

\* a session of main(): the input() call it waits at and its local variables
Session(food, drinks) ==
    [pc |-> "menu", food |-> food, drinks |-> drinks,
     category |-> <<>>, nutrient |-> <<>>, operator |-> <<>>, val_min |-> 0,
     context |-> <<>>, ret |-> "menu", at |-> "", exc |-> "", printed |-> <<>>]

\* an uncaught exception ends the process with a traceback
Crashed(exc) == [cli EXCEPT !.pc = "crashed", !.at = cli.pc, !.exc = exc]

\* main() up to its first input(): the two files are loaded
InitCLI ==
    /\ datasets = <<>>
    /\ categories = <<>>
    /\ result = Idle
    /\ \E menus \in LoadedMenus : cli = Session(menus[1], menus[2])

\* interactive_mode up to its first input(); LLMService() needs the API key
interactive_mode(food, drinks, api_key, ret) ==
    IF ~api_key
    THEN [Session(food, drinks) EXCEPT !.pc = "crashed", !.at = "LLMService",
                                       !.exc = "ValueError"]
    ELSE [Session(food, drinks) EXCEPT
            !.pc = "chat",
            !.ret = ret,
            !.context = <<"food data:\n">> \o to_string(food) \o <<"\n">>
                          \o <<"drinks data:\n">> \o to_string(drinks)]

\* main(): the menu choice; generate_stats and filter_data_mode each build
\* their own DataProcessor with the two tables
MenuInput(text, api_key) ==
    LET choice == strip(text)
        fresh == FoodName :> cli.food @@ DrinksName :> cli.drinks
    IN  IF choice = <<"1">>
        THEN /\ datasets' = fresh
             /\ categories' = <<FoodName, DrinksName>>
             /\ result' = Idle
             /\ cli' = [cli EXCEPT !.pc = "stats_pause",
                          !.printed = <<"Type 'quit', 'exit' or 'q' to return to menu\n">>]
        ELSE IF choice = <<"2">>
        THEN /\ datasets' = fresh
             /\ categories' = <<FoodName, DrinksName>>
             /\ result' = Idle
             /\ cli' = [cli EXCEPT !.pc = "category", !.printed = <<>>]
        ELSE IF choice = <<"3">>
        THEN /\ cli' = interactive_mode(cli.food, cli.drinks, api_key, "menu")
             /\ result' = Idle
             /\ UNCHANGED <<datasets, categories>>
        ELSE IF choice = <<"4">>
        THEN /\ cli' = [cli EXCEPT !.pc = "exited",
                          !.printed = <<"\nGoodbye! Thank you for using the application.">>]
             /\ UNCHANGED <<datasets, categories, result>>
        ELSE /\ cli' = [cli EXCEPT
                          !.printed = <<"Invalid input, Please type again.\n">>]
             /\ UNCHANGED <<datasets, categories, result>>

\* generate_stats: the loop that waits for a quit word
StatsPauseInput(text) ==
    /\ cli' = IF lower(strip(text)) \in QuitWords
              THEN [cli EXCEPT !.pc = "menu",
                               !.printed = <<"Returning to menu...\n">>]
              ELSE cli
    /\ UNCHANGED <<datasets, categories, result>>

\* filter_data_mode: the category prompt
CategoryInput(text) ==
    /\ cli' = IF lower(strip(text)) \notin DOMAIN datasets
              THEN [cli EXCEPT !.pc = "menu",
                               !.printed = <<"Invalid category.\n">>]
              ELSE [cli EXCEPT !.pc = "nutrient",
                               !.category = lower(strip(text)),
                               !.printed = <<>>]
    /\ UNCHANGED <<datasets, categories, result>>

\* filter_data_mode: the column prompt
NutrientInput(text) ==
    LET available_columns ==
            {lower(col) : col \in Columns(datasets[cli.category])}
    IN  /\ cli' = IF lower(strip(text)) \notin available_columns
                  THEN [cli EXCEPT !.pc = "menu",
                                   !.printed = <<"Invalid column.\n">>]
                  ELSE [cli EXCEPT !.pc = "operator",
                                   !.nutrient = lower(strip(text)),
                                   !.printed = <<>>]
        /\ UNCHANGED <<datasets, categories, result>>

\* filter_data_mode: the operator prompt
OperatorInput(text) ==
    /\ cli' = IF strip(text) \in {<<">">>, <<"<">>, <<"=", "=">>}
              THEN [cli EXCEPT !.pc = "value", !.operator = strip(text)]
              ELSE IF strip(text) = <<"b", "e", "t", "w", "e", "e", "n">>
              THEN [cli EXCEPT !.pc = "min", !.operator = strip(text)]
              ELSE [cli EXCEPT !.pc = "menu",
                               !.printed = <<"Operator not recognized.\n">>]
    /\ UNCHANGED <<datasets, categories, result>>

\* filter_data_mode: the engine call and the printing of its result
RunFilter(value) ==
    /\ result' = Result("filter_dataset",
                        [catergory |-> cli.category,
                         nutrient |-> capitalize(cli.nutrient),
                         operator |-> OperatorToken(cli.operator),
                         value |-> value],
                        filter_dataset(datasets, categories, cli.category,
                                       capitalize(cli.nutrient),
                                       OperatorToken(cli.operator), value))
    /\ cli' = IF result'.out.outcome = "raise"
              THEN Crashed(result'.out.exc)
              ELSE [cli EXCEPT !.pc = "filter_pause",
                               !.printed = <<"FILTERED RESULTS:">>]
    /\ UNCHANGED <<datasets, categories>>

\* filter_data_mode: the value prompt of '>', '<' and '=='
ValueInput(text) ==
    IF float(text).outcome = "raise"
    THEN /\ cli' = Crashed(float(text).exc)
         /\ UNCHANGED <<datasets, categories, result>>
    ELSE RunFilter(float(text).value)

\* filter_data_mode: the first prompt of 'between'
MinInput(text) ==
    /\ cli' = IF float(text).outcome = "raise"
              THEN Crashed(float(text).exc)
              ELSE [cli EXCEPT !.pc = "max", !.val_min = float(text).value]
    /\ UNCHANGED <<datasets, categories, result>>

\* filter_data_mode: the second prompt of 'between'
MaxInput(text) ==
    IF float(text).outcome = "raise"
    THEN /\ cli' = Crashed(float(text).exc)
         /\ UNCHANGED <<datasets, categories, result>>
    ELSE RunFilter(<<cli.val_min, float(text).value>>)

\* filter_data_mode: continue filtering or return to the menu
FilterPauseInput(text) ==
    /\ cli' = IF lower(strip(text)) \in QuitWords
              THEN [cli EXCEPT !.pc = "menu",
                               !.printed = <<"Returning to menu...\n">>]
              ELSE [cli EXCEPT !.pc = "category", !.printed = <<>>]
    /\ UNCHANGED <<datasets, categories, result>>

\* interactive_mode: one line of the chat
ChatInput(text) ==
    IF lower(strip(text)) \in QuitWords
    THEN /\ cli' = IF cli.ret = "menu"
                   THEN [cli EXCEPT !.pc = "menu",
                                    !.printed = <<"Returning to menu...\n">>]
                   ELSE NoCLI
         /\ result' = Idle
         /\ UNCHANGED <<datasets, categories>>
    ELSE IF strip(text) = <<>>
    THEN UNCHANGED vars
    ELSE /\ result' = Result("generate_response",
                             [prompt |-> text, context |-> cli.context],
                             generate_response(text, cli.context))
         /\ cli' = [cli EXCEPT !.printed = <<"\nLLM: ">>]
         /\ UNCHANGED <<datasets, categories>>

\* ------------------------------------------------------------- CLI inputs
\* cap on the length of a line typed in the chat and of a question
MaxTextLen == 3

TextChars == {"q", "Q", " ", "a"}

Texts == SeqsUpTo(TextChars, MaxTextLen)

MenuTexts == {<<"1">>, <<"2">>, <<" ", "2">>, <<"3">>, <<"4">>, <<"5">>, <<>>}

CategoryTexts == {FoodName, <<" ", "F", "o", "o", "d">>, DrinksName, <<"t", "e", "a">>}

NutrientTexts ==
    {<<"f", "a", "t">>, <<"F", "A", "T", " ">>, <<"c", "a", "r", "b">>,
     <<"p", "h">>, <<"p", "H">>, <<"s", "a", "l", "t">>}

OperatorTexts ==
    {<<">">>, <<"<">>, <<" ", "=", "=">>, <<"b", "e", "t", "w", "e", "e", "n">>,
     <<">", "=">>}

ValueTexts == {<<"0">>, <<" ", "1">>, <<"a", "b", "c">>, <<>>}

PauseTexts == {<<>>, <<"q">>, <<" ", "E", "x", "i", "t">>, <<"n", "o">>}

Menu ==
    /\ cli.pc = "menu"
    /\ \E text \in MenuTexts, api_key \in BOOLEAN : MenuInput(text, api_key)

StatsPause ==
    /\ cli.pc = "stats_pause"
    /\ \E text \in PauseTexts : StatsPauseInput(text)

CategoryPrompt ==
    /\ cli.pc = "category"
    /\ \E text \in CategoryTexts : CategoryInput(text)

NutrientPrompt ==
    /\ cli.pc = "nutrient"
    /\ \E text \in NutrientTexts : NutrientInput(text)

OperatorPrompt ==
    /\ cli.pc = "operator"
    /\ \E text \in OperatorTexts : OperatorInput(text)

ValuePrompt ==
    /\ cli.pc = "value"
    /\ \E text \in ValueTexts : ValueInput(text)

MinPrompt ==
    /\ cli.pc = "min"
    /\ \E text \in ValueTexts : MinInput(text)

MaxPrompt ==
    /\ cli.pc = "max"
    /\ \E text \in ValueTexts : MaxInput(text)

FilterPause ==
    /\ cli.pc = "filter_pause"
    /\ \E text \in PauseTexts : FilterPauseInput(text)

Chat ==
    /\ cli.pc = "chat"
    /\ \E text \in Texts : ChatInput(text)

\* The program run from the command line.
NextCLI ==
    \/ Menu \/ StatsPause \/ CategoryPrompt \/ NutrientPrompt \/ OperatorPrompt
    \/ ValuePrompt \/ MinPrompt \/ MaxPrompt \/ FilterPause \/ Chat

SpecCLI == InitCLI /\ [][NextCLI]_vars

\* ------------------------------------------------------------ LLM callers
Contexts ==
    {<<>>, <<" ">>}
        \cup {interactive_mode(menus[1], menus[2], TRUE, "none").context :
                menus \in LoadedMenus}

GenerateResponse(prompt, context) ==
    /\ result' = Result("generate_response",
                        [prompt |-> prompt, context |-> context],
                        generate_response(prompt, context))
    /\ UNCHANGED <<datasets, categories, cli>>

\* LLMService.generate_response called with any question and context
Ask ==
    /\ cli.pc = "none"
    /\ result = Idle
    /\ \E prompt \in Texts, context \in Contexts :
          GenerateResponse(prompt, context)

\* interactive_mode called with two loaded tables
EnterChat ==
    /\ cli.pc = "none"
    /\ result = Idle
    /\ \E menus \in LoadedMenus, api_key \in BOOLEAN :
          cli' = interactive_mode(menus[1], menus[2], api_key, "none")
    /\ UNCHANGED <<datasets, categories, result>>

NextLLM == Ask \/ EnterChat \/ Chat \/ Resume

SpecLLM == Init /\ [][NextLLM]_vars

\* ================================================================ claims
Args == result.args
Out == result.out

Registered == DOMAIN datasets

IsCompare == result.op = "compare_datasets"
IsFilterData == result.op = "filter_data"
IsFilterMany == result.op = "filter_datasets"

ReturnedTable == Out.outcome = "return" /\ Out.rtype = "DataFrame"
ReturnedDict == Out.outcome = "return" /\ Out.rtype = "dict"
ReturnedNone == Out.outcome = "return" /\ Out.rtype = "NoneType"

\* res holds exactly the rows of src that satisfy P, in src's order
ExactlyRowsWhere(res, src, P(_)) ==
    /\ \A i \in 1..Len(res) : res[i] \in Range(src) /\ P(res[i])
    /\ \A j \in 1..Len(src) : P(src[j]) => src[j] \in Range(res)
    /\ \A i, k \in 1..Len(res) : i < k => res[i].index < res[k].index

\* C1 (as stated): with fewer than 2 registered categories compare() fails
\* with InsufficientCategoriesError and returns nothing, not even a null.
C1_RaisesInsufficientCategories ==
    (IsCompare /\ Cardinality(Registered) < 2)
        => (Out.outcome = "raise" /\ Out.exc = "InsufficientCategoriesError")

\* C1 (amended): with fewer than 2 registered categories (none, or one that
\* may have been registered several times) compare() raises nothing: it
\* prints "Need at least 2 datasets to compare." and returns None, never a
\* comparison mapping.
C1_ReturnsNoneBelowTwo ==
    (IsCompare /\ Cardinality(Registered) < 2)
        => (ReturnedNone
            /\ Out.printed = <<"Need at least 2 datasets to compare.">>)

C1_Witness ==
    /\ IsCompare
    /\ Cardinality(Registered) = 1
    /\ Len(categories) >= 2
    /\ ReturnedNone

\* C2 (as stated): for every operator string, recognized or not, filter
\* fails with the unknown-column error (KeyError on the column) when the
\* nutrient is not a column of the table, and never returns a table.
C2_UnknownColumnAlwaysRaises ==
    (IsFilterData /\ Args.nutrient \notin Columns(Args.df))
        => (Out.outcome = "raise" /\ Out.exc = "KeyError")

\* C2 (amended): for each of the four recognized operators and every operand,
\* filter fails with KeyError naming the nutrient when the nutrient is not a
\* column of the table and returns no table; with an unrecognized operator
\* the column is never looked up and the table is returned as it is.
C2_UnknownColumnRaisesForRecognized ==
    (IsFilterData /\ Args.nutrient \notin Columns(Args.df))
        => /\ Args.operator \in RecognizedOperators
                => (Out.outcome = "raise" /\ Out.exc = "KeyError"
                    /\ Out.key = Args.nutrient)
           /\ Args.operator \notin RecognizedOperators
                => (ReturnedTable /\ Out.value = Args.df)

C2_Witness ==
    /\ IsFilterData
    /\ Args.operator = "between"
    /\ Args.df.columns = <<"Fat">>
    /\ Len(Args.df.rows) >= 1
    /\ Args.nutrient = "Protein"
    /\ Out.outcome = "raise"

\* C3 (as stated): filter with an operator outside '>', '<', '==', 'between'
\* fails with UnsupportedOperatorError and never returns the unfiltered table.
C3_UnsupportedOperatorRaises ==
    (IsFilterData /\ Args.operator \notin RecognizedOperators)
        => (Out.outcome = "raise" /\ Out.exc = "UnsupportedOperatorError")

\* C3 (amended): filter with an operator outside '>', '<', '==', 'between'
\* raises nothing: it prints "operator not recognized." and returns the
\* table unfiltered (every row, every column).
C3_UnsupportedOperatorPassesThrough ==
    (IsFilterData /\ Args.operator \notin RecognizedOperators)
        => (ReturnedTable
            /\ Out.value = Args.df
            /\ Out.printed = <<"operator not recognized.">>)

C3_Witness ==
    /\ IsFilterData
    /\ Args.operator = ">="
    /\ Len(Args.df.rows) >= 2
    /\ ReturnedTable
    /\ Len(Out.value.rows) = Len(Args.df.rows)

\* C4 (as stated): for every table, existing column, operator and operand no
\* row returned by filter has a missing value in the filtered column.
C4_NoMissingUnderAnyOperator ==
    (IsFilterData /\ Args.nutrient \in Columns(Args.df) /\ ReturnedTable)
        => \A i \in 1..Len(Out.value.rows) :
              Out.value.rows[i].cells[Args.nutrient] # NaN

\* C4 (amended): for every table, existing column and operand, and each of
\* the four recognized operators, no row returned by filter has a missing
\* value in the filtered column (an unrecognized operator returns the table
\* unfiltered, missing values included).
C4_NoMissingUnderRecognized ==
    (IsFilterData /\ Args.nutrient \in Columns(Args.df)
                  /\ Args.operator \in RecognizedOperators)
        => /\ ReturnedTable
           /\ \A i \in 1..Len(Out.value.rows) :
                 Out.value.rows[i].cells[Args.nutrient] # NaN

C4_Witness ==
    /\ IsFilterData
    /\ Args.operator = "between"
    /\ Args.value = <<0, MaxVal>>
    /\ Args.nutrient \in Columns(Args.df)
    /\ \E i \in 1..Len(Args.df.rows) : Args.df.rows[i].cells[Args.nutrient] = NaN
    /\ ReturnedTable
    /\ Len(Out.value.rows) >= 1
    /\ Len(Out.value.rows) < Len(Args.df.rows)

\* C5: with at least 2 registered categories the result of compare(N) has
\* exactly the registered categories as keys; every category carries the
\* same nutrient entries (those of N when N is supplied), each entry holds
\* exactly the nine metric fields, and all nine are NaN when the category's
\* table lacks the nutrient's column.
C5_ComparisonComplete ==
    (IsCompare /\ Cardinality(Registered) >= 2)
        => /\ ReturnedDict
           /\ DOMAIN Out.value = Range(categories)
           /\ \A c \in DOMAIN Out.value :
                /\ Args.nutrients.given
                      => DOMAIN Out.value[c] = Range(Args.nutrients.list)
                /\ \A d \in DOMAIN Out.value :
                      DOMAIN Out.value[d] = DOMAIN Out.value[c]
                /\ \A n \in DOMAIN Out.value[c] :
                      /\ DOMAIN Out.value[c][n] = MetricNames
                      /\ n \notin Columns(datasets[c])
                            => \A m \in MetricNames : Out.value[c][n][m] = NaN

C5_Witness ==
    /\ IsCompare
    /\ ReturnedDict
    /\ Args.nutrients.given
    /\ \E c, d \in DOMAIN Out.value :
          /\ "Carb" \in DOMAIN Out.value[c]
          /\ "Carb" \notin Columns(datasets[c])
          /\ Out.value[c]["Carb"]["count"] = NaN
          /\ "Carb" \in Columns(datasets[d])
          /\ Out.value[d]["Carb"]["count"] = 2

\* C6: compare uses a caller-supplied nutrient list exactly as given, also
\* for nutrients that some or all categories lack; when no list is supplied
\* a nutrient is compared iff every registered table has that column.
C6_NutrientSetResolution ==
    (IsCompare /\ Cardinality(Registered) >= 2)
        => /\ ReturnedDict
           /\ \A c \in DOMAIN Out.value :
                 DOMAIN Out.value[c] =
                    IF Args.nutrients.given
                    THEN {Args.nutrients.list[i] : i \in 1..Len(Args.nutrients.list)}
                    ELSE {n \in NutrientNames :
                            \A d \in Registered : n \in Columns(datasets[d])}

C6_Witness ==
    /\ IsCompare
    /\ ReturnedDict
    /\ ~Args.nutrients.given
    /\ \E c, d \in Registered :
          /\ Columns(datasets[c]) = {"Fat", "Protein", "Carb"}
          /\ Columns(datasets[d]) = {"Fat", "Protein"}
          /\ DOMAIN Out.value[c] = {"Fat", "Protein"}

\* C7: for '>', '<' and '==' with a numeric operand, filter returns exactly
\* the rows whose cell in the nutrient column is strictly greater than,
\* strictly less than, or equal to the operand, in their original relative
\* order and with every column of the source table.
C7_ComparisonFilterExact ==
    (IsFilterData /\ Args.operator \in {">", "<", "=="}
                  /\ Args.nutrient \in Columns(Args.df))
        => /\ ReturnedTable
           /\ Out.value.columns = Args.df.columns
           /\ ExactlyRowsWhere(Out.value.rows, Args.df.rows,
                 LAMBDA r :
                    /\ r.cells[Args.nutrient] # NaN
                    /\ CASE Args.operator = ">" -> r.cells[Args.nutrient] > Args.value
                         [] Args.operator = "<" -> r.cells[Args.nutrient] < Args.value
                         [] Args.operator = "==" -> r.cells[Args.nutrient] = Args.value)

C7_Witness ==
    /\ IsFilterData
    /\ Args.operator = ">"
    /\ Args.value = 0
    /\ Args.df.columns = <<"Fat", "Protein">>
    /\ Args.nutrient = "Protein"
    /\ Len(Args.df.rows) = 3
    /\ Args.df.rows[2].cells["Protein"] = 0
    /\ ReturnedTable
    /\ Len(Out.value.rows) = 2
    /\ Out.value.rows[1].index = 1
    /\ Out.value.rows[2].index = 3
    /\ Out.value.rows[1].cells["Fat"] # Out.value.rows[2].cells["Fat"]

\* C8: filter with 'between' and operand (low, high) returns exactly the rows
\* whose value v satisfies low <= v <= high, both bounds inclusive; with
\* low > high it returns no row (the bounds are not swapped).
C8_BetweenInclusiveNoSwap ==
    (IsFilterData /\ Args.operator = "between"
                  /\ Args.nutrient \in Columns(Args.df))
        => /\ ReturnedTable
           /\ Out.value.columns = Args.df.columns
           /\ ExactlyRowsWhere(Out.value.rows, Args.df.rows,
                 LAMBDA r :
                    /\ r.cells[Args.nutrient] # NaN
                    /\ Args.value[1] <= r.cells[Args.nutrient]
                    /\ r.cells[Args.nutrient] <= Args.value[2])
           /\ Args.value[1] > Args.value[2] => Out.value.rows = <<>>

C8_Witness ==
    /\ IsFilterData
    /\ Args.operator = "between"
    /\ Args.value = <<1, 1>>
    /\ Args.nutrient = "Fat"
    /\ "Fat" \in Columns(Args.df)
    /\ Len(Args.df.rows) = 3
    /\ Args.df.rows[1].cells["Fat"] = 1
    /\ Args.df.rows[2].cells["Fat"] = 0
    /\ Args.df.rows[3].cells["Fat"] = 1
    /\ ReturnedTable
    /\ Len(Out.value.rows) = 2

\* C9 (as stated): after any sequence of register calls the ordered category
\* list holds each registered category name exactly once; re-registering a
\* category does not append its name again.
C9_EachCategoryOnce ==
    /\ Range(categories) = Registered
    /\ \A i, j \in 1..Len(categories) : categories[i] = categories[j] => i = j

\* C10: filter_many over requested categories that are all registered (and
\* whose tables all have the nutrient column, or with an unrecognized
\* operator) returns a mapping whose keys are exactly the requested
\* categories, each holding filter applied to that category's registered
\* table with the same criterion; with categories omitted the keys are
\* exactly the registered categories.
C10_Requested ==
    IF Args.categories.given THEN Range(Args.categories.list) ELSE Range(categories)

C10_FilterManyPerCategory ==
    (/\ IsFilterMany
     /\ C10_Requested \subseteq Registered
     /\ \/ Args.operator \notin RecognizedOperators
        \/ \A c \in C10_Requested : Args.nutrient \in Columns(datasets[c]))
        => /\ ReturnedDict
           /\ DOMAIN Out.value = C10_Requested
           /\ ~Args.categories.given => DOMAIN Out.value = Registered
           /\ \A c \in DOMAIN Out.value :
                 Out.value[c] =
                    filter_data(datasets[c], Args.nutrient,
                                Args.operator, Args.value).value

C10_Witness ==
    /\ IsFilterMany
    /\ ~Args.categories.given
    /\ ReturnedDict
    /\ DOMAIN Out.value = {"food", "drinks"}
    /\ datasets["food"] # datasets["drinks"]
    /\ Len(Out.value["food"].rows) = 1
    /\ Len(datasets["food"].rows) = 2
    /\ Len(Out.value["drinks"].rows) = 2

\* ------------------------------------------------------------------ C11..
IsFilterOne == result.op = "filter_dataset"
IsStats == result.op = "calculate_descriptive_stats"

QueryOps ==
    {"calculate_descriptive_stats", "compare_datasets", "filter_data",
     "filter_datasets", "filter_dataset"}

\* C11: a step that runs descriptive_stats, compare, filter, filter_many or
\* the single-category filter leaves every registered table (rows, row order,
\* columns, values) and the set of registered tables as they were; the
\* filtered table is returned to the caller, not written back.
C11_QueriesLeaveTablesAlone ==
    [][result'.op \in QueryOps => datasets' = datasets]_vars

C11_Witness ==
    /\ IsFilterOne
    /\ ReturnedTable
    /\ Args.catergory \in Registered
    /\ Len(datasets[Args.catergory].rows) = 3
    /\ Len(Out.value.rows) = 1

\* C12: for every registered category the ratio mapping of descriptive_stats
\* has exactly the keys fat_to_protein, protein_to_carb and carb_to_fat when
\* the table has the columns Fat, Protein and Carb, and no key at all when
\* one of the three is absent.
C12_RatiosAllOrNothing ==
    (IsStats /\ ReturnedDict)
        => \A c \in Registered :
              DOMAIN Out.value[c].ratio =
                  IF /\ "Fat" \in Columns(datasets[c])
                     /\ "Protein" \in Columns(datasets[c])
                     /\ "Carb" \in Columns(datasets[c])
                  THEN {"fat_to_protein", "protein_to_carb", "carb_to_fat"}
                  ELSE {}

C12_Witness ==
    /\ IsStats
    /\ ReturnedDict
    /\ Registered = {"food", "drinks"}
    /\ datasets["food"].columns = <<"Fat", "Protein">>
    /\ Len(datasets["food"].rows) > 0
    /\ DOMAIN Out.value["food"].ratio = {}
    /\ Cardinality(DOMAIN Out.value["drinks"].ratio) = 3

\* the sum of the non-missing cells of a column, row by row
SumNonMissing(df, col) ==
    LET part[i \in 0..Len(df.rows)] ==
            IF i = 0 THEN 0
            ELSE part[i - 1] + (IF df.rows[i].cells[col] = NaN THEN 0
                                ELSE df.rows[i].cells[col])
    IN  part[Len(df.rows)]

\* r is the quotient a / b as numpy computes it
IsQuotient(r, a, b) ==
    IF b = 0 THEN r.den = 0 /\ r.num = (IF a = 0 THEN 0 ELSE 1)
    ELSE r.den > 0 /\ r.num * b = a * r.den

\* C13: each ratio of descriptive_stats is the quotient of the whole-column
\* sums with missing cells left out: fat_to_protein = sum(Fat)/sum(Protein),
\* protein_to_carb = sum(Protein)/sum(Carb), carb_to_fat = sum(Carb)/sum(Fat);
\* Fat=[2,4], Protein=[1,1], Carb=[1,3] gives 3 and 4/6.
C13_RatiosOfColumnSums ==
    (IsStats /\ ReturnedDict)
        => \A c \in Registered :
              LET df == datasets[c]
                  r == Out.value[c].ratio
              IN  /\ IsQuotient(r["fat_to_protein"], SumNonMissing(df, "Fat"),
                                SumNonMissing(df, "Protein"))
                  /\ IsQuotient(r["protein_to_carb"], SumNonMissing(df, "Protein"),
                                SumNonMissing(df, "Carb"))
                  /\ IsQuotient(r["carb_to_fat"], SumNonMissing(df, "Carb"),
                                SumNonMissing(df, "Fat"))
                  /\ Series(df, "Fat") = <<2, 4>> /\ Series(df, "Protein") = <<1, 1>>
                        /\ Series(df, "Carb") = <<1, 3>>
                     => /\ r["fat_to_protein"] = [num |-> 3, den |-> 1]
                        /\ 6 * r["carb_to_fat"].num = 4 * r["carb_to_fat"].den

C13_Witness ==
    /\ IsStats
    /\ ReturnedDict
    /\ Registered = {"food", "drinks"}
    /\ Series(datasets["drinks"], "Fat") = <<2, 4>>
    /\ Out.value["drinks"].ratio["fat_to_protein"] = [num |-> 3, den |-> 1]
    /\ Series(datasets["food"], "Fat") = <<NaN, 1>>
    /\ Series(datasets["food"], "Protein") = <<1, 1>>
    /\ Out.value["food"].ratio["fat_to_protein"] = [num |-> 1, den |-> 2]

NonMissing(df, col) ==
    Cardinality({i \in 1..Len(df.rows) : df.rows[i].cells[col] # NaN})

\* C14: for every registered table and every column of it, the 'count' row
\* of descriptive_stats and the integer 'count' field of compare both equal
\* the number of rows whose cell in that column is not missing.
C14_CountIsNonMissing ==
    /\ (IsStats /\ ReturnedDict)
          => \A c \in Registered : \A col \in Columns(datasets[c]) :
                Out.value[c].describe["count"][col]
                    = [num |-> NonMissing(datasets[c], col), den |-> 1]
    /\ (IsCompare /\ ReturnedDict)
          => \A c \in Registered : \A col \in Columns(datasets[c]) :
                Out.value[c][col]["count"] = NonMissing(datasets[c], col)

C14_Witness ==
    /\ IsCompare
    /\ ReturnedDict
    /\ Series(datasets["food"], "Fat") = <<NaN, 1>>
    /\ Out.value["food"]["Fat"]["count"] = 1
    /\ Out.value["drinks"]["Fat"]["count"] = 2

\* C15: a descriptive_stats call that directly follows another one returns
\* what that one returned, and no descriptive_stats call changes the
\* registered tables or the category list.
C15_StatsIdempotent ==
    [][result'.op = "calculate_descriptive_stats"
          => /\ datasets' = datasets
             /\ categories' = categories
             /\ result.op = "calculate_descriptive_stats"
                   => result'.out = result.out]_vars

C15_Witness ==
    /\ IsStats
    /\ Args.nth = 2
    /\ ReturnedDict
    /\ "food" \in Registered
    /\ Series(datasets["food"], "Fat") = <<NaN, 1>>

\* C16: filter_dataset with a category that was never registered raises
\* ValueError naming the category and returns no table; with a registered
\* category it returns what filter_data returns for that category's table;
\* either way the registered tables and the category list stay as they were.
C16_SingleCategoryFilter ==
    [][result'.op = "filter_dataset"
          => /\ datasets' = datasets
             /\ categories' = categories
             /\ result'.args.catergory \notin DOMAIN datasets
                   => /\ result'.out.outcome = "raise"
                      /\ result'.out.exc = "ValueError"
                      /\ result'.out.key = result'.args.catergory
             /\ result'.args.catergory \in DOMAIN datasets
                   => result'.out = filter_data(datasets[result'.args.catergory],
                                                result'.args.nutrient,
                                                result'.args.operator,
                                                result'.args.value)]_vars

C16_Witness ==
    /\ IsFilterOne
    /\ Registered = {"food"}
    /\ Args.catergory = "drinks"
    /\ Out.outcome = "raise"
    /\ Out.exc = "ValueError"
    /\ Out.key = "drinks"

\* C18: the names on the category list are exactly the keys of the table
\* mapping, so filter_datasets over the default list and filter_dataset with
\* a listed category never miss a table (no KeyError on a category).
C18_ListMatchesMapping ==
    /\ Range(categories) = DOMAIN datasets
    /\ (IsFilterMany /\ ~Args.categories.given /\ Out.outcome = "raise")
          => Out.key \notin Range(categories)
    /\ (IsFilterOne /\ Args.catergory \in Range(categories))
          => ~(Out.outcome = "raise" /\ Out.key = Args.catergory)

C18_Witness ==
    /\ IsFilterMany
    /\ ~Args.categories.given
    /\ Len(categories) = 3
    /\ Cardinality(DOMAIN datasets) = 2
    /\ ReturnedDict
    /\ DOMAIN Out.value = {"food", "drinks"}

IsFilterFromCLI == IsFilterOne /\ cli.pc \in {"filter_pause", "crashed"}

\* C17 (as stated): in the filter mode of the command line no sequence of
\* inputs, a non-numeric text at a value prompt included, ends the process
\* with an uncaught exception; the process ends only by menu choice 4.
C17_FilterModeNeverCrashes ==
    cli.pc = "crashed" => cli.at \notin {"value", "min", "max"}

\* C19 (as stated): the nutrient handed to the engine by the filter mode,
\* after it passed the column validation, is a column of the selected table,
\* and the filter does not fail on an unknown column.
C19_AcceptedColumnIsKnown ==
    IsFilterFromCLI
        => /\ Args.nutrient \in Columns(datasets[Args.catergory])
           /\ ~(Out.outcome = "raise" /\ Out.exc = "KeyError")

IsGenerateResponse == result.op = "generate_response"

\* C20 (as stated): for every question and every context, the empty context
\* included, the user message sent to the model contains the question; and
\* the chat forwards neither an empty line nor a quit word.
C20_MessageCarriesQuestion ==
    IsGenerateResponse
        => /\ Contains(Out.value.user, Args.prompt)
           /\ cli.pc = "chat"
                => /\ strip(Args.prompt) # <<>>
                   /\ lower(strip(Args.prompt)) \notin QuitWords

====
